---- MODULE Spec2Model ----
(***************************************************************************)
(* Model of the meeting-room booking repository.                           *)
(*                                                                         *)
(*   Spec       src/app.py: the command line entry point `main` and the    *)
(*              conflict resolver `suggest_for_request` (confirm,          *)
(*              negotiate, 30-minute fallback scan, apology).              *)
(*   SpecMerge  src/suggest_participant_availability.py: merge_intervals.  *)
(*   SpecWork   src/suggest_participant_availability.py:                   *)
(*              generate_work_blocks and split_working_hours.              *)
(*                                                                         *)
(* Instants are integers counting minutes.  In Spec they count from        *)
(* 2025-07-11 00:00 (so 840 is 14:00); in SpecWork from 00:00 of a Monday  *)
(* in the Asia/Singapore zone, which has no daylight saving.               *)
(***************************************************************************)
EXTENDS Integers, Sequences, FiniteSets, TLC

VARIABLES
    \* ---- src/app.py
    pc,          \* position: "start", "check", "negotiate", "probe", "done"
    entry,       \* "cli" (main) or "call" (suggest_for_request called directly)
    args,        \* the arguments of the entry point
    req,         \* the Booking built at line 49 (None before)
    existing,    \* the list of existing bookings
    conflict,    \* the booking found at line 52 (None when there is none)
    i,           \* the loop variable of the fallback scan
    probes,      \* how many candidates the fallback scan has tested
    outcome,     \* what the program returned or printed (None before)
    \* ---- merge_intervals
    m_pc, m_input, m_once, m_twice,
    \* ---- generate_work_blocks / split_working_hours
    w_pc, w_range, w_blocks, w_periods, w_composed,
    \* ---- CheckRoomAvailability._run (src/find_available_rooms.py)
    r_pc,        \* "start", "loop", "done"
    r_in,        \* the call's arguments and the calendar provider's data
    r_rooms,     \* relevant_rooms: the directory entries of the room_ids
    r_chunks,    \* the chunks the loop of line 188 iterates over
    r_k,         \* the index of the next chunk
    r_queries,   \* the items of every free/busy query sent so far
    r_answers,   \* the calendar ids of every response, in the response's order
    r_resp,      \* resp: one record per window, with its available_rooms
    r_out,       \* what _run returned (None before)
    \* suggest_participant_availability.py: SuggestParticipantAvailability._run
    a_pc,        \* "off", "start", "period", "slice", "day_end", "done"
    a_in,        \* the call and what the provider answers (None before)
    a_map,       \* email_to_credential_map
    a_queries,   \* every free/busy query sent so far: credential and items
    a_days,      \* work_days
    a_d,         \* the index of the work day being processed
    a_periods,   \* periods of that work day
    a_p,         \* the index of the next period
    a_free,      \* free_slots of the period being sliced
    a_f,         \* the index of the free slot being sliced
    a_ws,        \* window_start
    a_windows,   \* available_windows of the period being sliced
    a_results,   \* results
    a_out,       \* what _run returned (None before)
    \* create_event.py: the calls of CreateMeeting._run and the provider
    c_pc,        \* per call: "off", "start", "insert", "done"
    c_in,        \* per call: its arguments
    c_calendars, \* the provider's calendar of every room before the calls
    c_events,    \* the events inserted so far
    c_seen,      \* per call: the calendars of its free/busy response
    c_out        \* per call: what _run returned (None before)

appVars   == <<pc, entry, args, req, existing, conflict, i, probes, outcome>>
mergeVars == <<m_pc, m_input, m_once, m_twice>>
workVars  == <<w_pc, w_range, w_blocks, w_periods, w_composed>>
roomVars  == <<r_pc, r_in, r_rooms, r_chunks, r_k, r_queries, r_answers, r_resp, r_out>>
availVars == <<a_pc, a_in, a_map, a_queries, a_days, a_d, a_periods, a_p,
               a_free, a_f, a_ws, a_windows, a_results, a_out>>
createVars == <<c_pc, c_in, c_calendars, c_events, c_seen, c_out>>
vars      == <<appVars, mergeVars, workVars, roomVars, availVars, createVars>>

None == [none |-> TRUE]

Max2(a, b) == IF a >= b THEN a ELSE b
Min2(a, b) == IF a <= b THEN a ELSE b

(***************************************************************************)
(* src/app.py                                                              *)
(***************************************************************************)

\* Bound of the model: the longest list of existing bookings drawn freely.
MaxBookings == 2

\* for i in range(1, 9), alt_start = start + timedelta(minutes=30 * i)
STEP_MINUTES == 30
LAST_STEP == 8

\* load_sample_data: the rooms and the one sample booking.
SampleRooms == << [id |-> "Room A", capacity |-> 5],
                  [id |-> "Room B", capacity |-> 8],
                  [id |-> "Room C", capacity |-> 10] >>

Booking(room, start, end, attendees, user) ==
    [room |-> room, start |-> start, end |-> end,
     attendees |-> attendees, user |-> user]

SampleExisting == << Booking(SampleRooms[1], 840, 900, 2, "alice") >>

\* str.lower() on the room names that occur.
Lower(s) ==
    CASE s = "Room A" -> "room a"
      [] s = "Room B" -> "room b"
      [] s = "Room C" -> "room c"
      [] s = "ROOM B" -> "room b"
      [] s = "Room Z" -> "room z"
      [] OTHER -> s

\* datetime.strptime(args.time, "%Y-%m-%d %H:%M"): minutes from
\* 2025-07-11 00:00; ok is FALSE where strptime raises ValueError.
strptime(s) ==
    CASE s = "2025-07-11 14:00" -> [ok |-> TRUE, t |-> 840]
      [] s = "2025-07-11 14:30" -> [ok |-> TRUE, t |-> 870]
      [] s = "2025-07-11 16:00" -> [ok |-> TRUE, t |-> 960]
      [] s = "2025-07-11 13:15" -> [ok |-> TRUE, t |-> 795]
      [] OTHER -> [ok |-> FALSE, t |-> 0]

\* timedelta(hours=args.duration); the argument is kept in quarter hours.
timedelta_hours(quarters) == 15 * quarters

\* strftime('%-I:%M %p'): 12-hour clock without a leading zero.
strftime_I_M_p(t) ==
    LET h == (t \div 60) % 24
    IN  [hour |-> IF h % 12 = 0 THEN 12 ELSE h % 12,
         minute |-> t % 60,
         p |-> IF h < 12 THEN "AM" ELSE "PM"]

\* strftime('%-I:%M'): the same without AM/PM.
strftime_I_M(t) ==
    LET h == (t \div 60) % 24
    IN  [hour |-> IF h % 12 = 0 THEN 12 ELSE h % 12, minute |-> t % 60]

\* A variant of overlaps that counts touching intervals as overlapping.
overlaps_inclusive(a, b) == ~(a.end < b.start \/ a.start > b.end)

\* A variant of overlaps that only compares the start instants.
overlaps_same_start(a, b) == a.start = b.start

overlaps(a, b) == ~(a.end <= b.start \/ a.start >= b.end)

\* A variant of find_conflicting_booking that returns the last match.
find_last_conflicting_booking(r, ex) ==
    LET hits == {k \in 1..Len(ex) : ex[k].room.id = r.room.id /\ overlaps(r, ex[k])}
    IN  IF hits = {} THEN None
        ELSE ex[CHOOSE k \in hits : \A j \in hits : j <= k]

find_conflicting_booking(r, ex) ==
    LET hits == {k \in 1..Len(ex) : ex[k].room.id = r.room.id /\ overlaps(r, ex[k])}
    IN  IF hits = {} THEN None
        ELSE ex[CHOOSE k \in hits : \A j \in hits : k <= j]

\* A variant of the candidate start that is one step late.
alt_start_late(start, k) == start + STEP_MINUTES * (k + 1)

alt_start(start, k) == start + STEP_MINUTES * k

\* A variant of the scan that stops one candidate early: range(1, 8).
scan_is_over_early(k) == k > LAST_STEP - 1

\* The for loop of line 64 has run through range(1, 9).
scan_is_over(k) == k > LAST_STEP

\* --------------------------------------------------------------- inputs

RoomA == SampleRooms[1]
RoomB == SampleRooms[2]

\* The intervals of the bookings of Room A that the model draws from.
IntervalsA == { <<810, 840>>, <<840, 900>>, <<855, 885>>, <<870, 960>>,
                <<900, 960>>, <<840, 1080>>, <<900, 1110>>, <<840, 1110>> }

BookingDomain ==
    { Booking(RoomA, iv[1], iv[2], n, "alice") : iv \in IntervalsA, n \in {2, 5} }
    \cup { Booking(RoomB, 840, 900, 2, "bob"), Booking(RoomB, 840, 1110, 5, "bob") }

RECURSIVE SeqsUpTo(_, _)
SeqsUpTo(S, n) ==
    IF n = 0 THEN { <<>> }
    ELSE LET shorter == SeqsUpTo(S, n - 1)
         IN  shorter \cup { Append(s, x) : s \in {t \in shorter : Len(t) = n - 1}, x \in S }

\* Room A booked back to back in 30-minute bookings from 14:00, n of them.
SolidBooked(n) ==
    [k \in 1..n |-> Booking(RoomA, 840 + 30 * (k - 1), 840 + 30 * k, 5, "carol")]

ExistingLists ==
    SeqsUpTo(BookingDomain, MaxBookings) \cup { SolidBooked(8), SolidBooked(9) }

CallArgs ==
    [room : {RoomA, RoomB}, num_people : {0, 3, 5}, start : {840, 855},
     duration : {30, 60}, existing : ExistingLists]

CliArgs ==
    [room : {"Room A", "ROOM B", "Room Z"}, people : {-1, 0, 3, 5},
     time : {"2025-07-11 14:00", "2025-07-11 13:15", "2025-07-11 16:00", "14:00"},
     duration : {2, 4, 6}]

\* --------------------------------------------------------------- actions

InitApp ==
    /\ pc = "start"
    /\ \/ entry = "cli" /\ args \in CliArgs
       \/ entry = "call" /\ args \in CallArgs
    /\ req = None
    /\ existing = <<>>
    /\ conflict = None
    /\ i = 0
    /\ probes = 0
    /\ outcome = None

\* main, lines 110-132: load the sample data, find the room, parse the time,
\* then call suggest_for_request (whose line 49 builds req).
Main ==
    /\ pc = "start" /\ entry = "cli"
    /\ LET matching == SelectSeq(SampleRooms, LAMBDA r : Lower(r.id) = Lower(args.room))
           parsed   == strptime(args.time)
           start    == parsed.t
           duration == timedelta_hours(args.duration)
       IN  IF matching = <<>>
           THEN /\ outcome' = [kind |-> "Error", text |-> "room not found", exit |-> 1]
                /\ pc' = "done"
                /\ UNCHANGED <<req, existing>>
           ELSE IF ~parsed.ok
           THEN /\ outcome' = [kind |-> "Error", text |-> "bad time format", exit |-> 1]
                /\ pc' = "done"
                /\ UNCHANGED <<req, existing>>
           ELSE /\ req' = Booking(matching[1], start, start + duration, args.people, "you")
                /\ existing' = SampleExisting
                /\ pc' = "check"
                /\ UNCHANGED outcome
    /\ UNCHANGED <<entry, args, conflict, i, probes, mergeVars, workVars, roomVars, availVars, createVars>>

\* suggest_for_request called directly, line 49.
Call ==
    /\ pc = "start" /\ entry = "call"
    /\ req' = Booking(args.room, args.start, args.start + args.duration,
                      args.num_people, "you")
    /\ existing' = args.existing
    /\ pc' = "check"
    /\ UNCHANGED <<entry, args, conflict, i, probes, outcome, mergeVars, workVars, roomVars, availVars, createVars>>

\* lines 51-55: the room is free, confirm.
CheckConflict ==
    /\ pc = "check"
    /\ LET c == find_conflicting_booking(req, existing)
       IN  /\ conflict' = c
           /\ IF c = None
              THEN /\ outcome' = [kind |-> "Confirmed", room |-> req.room.id,
                                  num_people |-> req.attendees,
                                  at |-> strftime_I_M_p(req.start)]
                   /\ pc' = "done"
              ELSE /\ pc' = "negotiate"
                   /\ UNCHANGED outcome
    /\ UNCHANGED <<entry, args, req, existing, i, probes, mergeVars, workVars, roomVars, availVars, createVars>>

\* lines 57-61: booked by fewer people, offer to negotiate; otherwise enter
\* the loop of line 64 with i = 1.
Negotiate ==
    /\ pc = "negotiate"
    /\ IF conflict.attendees < req.attendees
       THEN /\ outcome' = [kind |-> "NegotiationOffered", room |-> req.room.id,
                           at |-> strftime_I_M_p(req.start),
                           user |-> conflict.user, attendees |-> conflict.attendees]
            /\ pc' = "done"
            /\ i' = i
       ELSE /\ pc' = "probe"
            /\ i' = 1
            /\ UNCHANGED outcome
    /\ UNCHANGED <<entry, args, req, existing, conflict, probes, mergeVars, workVars, roomVars, availVars, createVars>>

\* lines 64-71: one iteration of the fallback scan.
Probe ==
    /\ pc = "probe" /\ ~scan_is_over(i)
    /\ LET duration == req.end - req.start
           a_start  == alt_start(req.start, i)
           a_end    == a_start + duration
           alt_req  == Booking(req.room, a_start, a_end, req.attendees, "you")
       IN  /\ probes' = probes + 1
           /\ IF find_conflicting_booking(alt_req, existing) = None
              THEN /\ outcome' = [kind |-> "FallbackOffered", room |-> req.room.id,
                                  at |-> strftime_I_M_p(req.start),
                                  slot_start |-> a_start, slot_end |-> a_end,
                                  from |-> strftime_I_M(a_start),
                                  to |-> strftime_I_M(a_end)]
                   /\ pc' = "done"
                   /\ i' = i
              ELSE /\ i' = i + 1
                   /\ UNCHANGED <<pc, outcome>>
    /\ UNCHANGED <<entry, args, req, existing, conflict, mergeVars, workVars, roomVars, availVars, createVars>>

\* lines 73-75: the loop ended without a return.
Exhaust ==
    /\ pc = "probe" /\ scan_is_over(i)
    /\ outcome' = [kind |-> "Exhausted", room |-> req.room.id]
    /\ pc' = "done"
    /\ UNCHANGED <<entry, args, req, existing, conflict, i, probes, mergeVars, workVars, roomVars, availVars, createVars>>

IdleMerge == m_pc = "off" /\ m_input = <<>> /\ m_once = <<>> /\ m_twice = <<>>
IdleWork  == w_pc = "off" /\ w_range = None /\ w_blocks = <<>>
             /\ w_periods = <<>> /\ w_composed = <<>>
IdleRooms == r_pc = "off" /\ r_in = None /\ r_rooms = <<>> /\ r_chunks = <<>>
             /\ r_k = 0 /\ r_queries = <<>> /\ r_answers = <<>> /\ r_resp = <<>>
             /\ r_out = None
IdleCreate == /\ c_pc = <<>> /\ c_in = <<>> /\ c_calendars = <<>>
              /\ c_events = <<>> /\ c_seen = <<>> /\ c_out = <<>>
IdleAvail == /\ a_pc = "off" /\ a_in = None /\ a_map = <<>> /\ a_queries = <<>>
             /\ a_days = <<>> /\ a_d = 0 /\ a_periods = <<>> /\ a_p = 0
             /\ a_free = <<>> /\ a_f = 0 /\ a_ws = 0
             /\ a_windows = <<>> /\ a_results = <<>> /\ a_out = None
IdleApp   == pc = "off" /\ entry = "off" /\ args = None /\ req = None
             /\ existing = <<>> /\ conflict = None /\ i = 0 /\ probes = 0
             /\ outcome = None

Init == InitApp /\ IdleMerge /\ IdleWork /\ IdleRooms /\ IdleAvail /\ IdleCreate

Next ==
    \/ Main
    \/ Call
    \/ CheckConflict
    \/ Negotiate
    \/ Probe
    \/ Exhaust

Spec == Init /\ [][Next]_vars

(***************************************************************************)
(* src/suggest_participant_availability.py: merge_intervals                *)
(***************************************************************************)

\* Bounds of the model: the longest input list and the last instant.
MaxIntervals == 3
MaxTime == 4

Interval(start, end) == [start |-> start, end |-> end]

\* The busy intervals the model draws from: start < end within 0..MaxTime.
IntervalDomain ==
    { iv \in { Interval(a, b) : a \in 0..MaxTime, b \in 0..MaxTime } :
        iv.start < iv.end }

\* list.sort(key=lambda x: x["start"]): a stable sort, by insertion.
RECURSIVE sort_by_start(_)
sort_by_start(intervals) ==
    IF intervals = <<>> THEN <<>>
    ELSE LET n      == Len(intervals)
             x      == intervals[n]
             front  == sort_by_start(SubSeq(intervals, 1, n - 1))
             before == SelectSeq(front, LAMBDA y : y.start <= x.start)
             after  == SelectSeq(front, LAMBDA y : y.start > x.start)
         IN  before \o <<x>> \o after

\* A variant of the loop body that does not merge touching intervals.
merge_step_strict(merged, current) ==
    LET last == merged[Len(merged)]
    IN  IF current.start < last.end
        THEN [merged EXCEPT ![Len(merged)].end = Max2(last.end, current.end)]
        ELSE Append(merged, current)

\* Lines 77-81: the body of the loop over intervals[1:].
merge_step(merged, current) ==
    LET last == merged[Len(merged)]
    IN  IF current.start <= last.end
        THEN [merged EXCEPT ![Len(merged)].end = Max2(last.end, current.end)]
        ELSE Append(merged, current)

RECURSIVE merge_loop(_, _)
merge_loop(merged, rest) ==
    IF rest = <<>> THEN merged
    ELSE merge_loop(merge_step(merged, Head(rest)), Tail(rest))

\* A variant of merge_intervals that compares each interval with the one
\* before it in the sorted input instead of with the last merged interval.
RECURSIVE merge_loop_adjacent(_, _, _)
merge_loop_adjacent(merged, sorted, k) ==
    IF k > Len(sorted) THEN merged
    ELSE LET last == merged[Len(merged)]
             step == IF sorted[k].start <= sorted[k - 1].end
                     THEN [merged EXCEPT ![Len(merged)].end =
                                             Max2(last.end, sorted[k].end)]
                     ELSE Append(merged, sorted[k])
         IN  merge_loop_adjacent(step, sorted, k + 1)

merge_intervals_adjacent(intervals) ==
    IF intervals = <<>> THEN <<>>
    ELSE LET sorted == sort_by_start(intervals)
         IN  merge_loop_adjacent(<<sorted[1]>>, sorted, 2)

\* Lines 71-82.
merge_intervals(intervals) ==
    IF intervals = <<>> THEN <<>>
    ELSE LET sorted == sort_by_start(intervals)
         IN  merge_loop(<<sorted[1]>>, Tail(sorted))

InitMerge ==
    /\ m_pc = "start"
    /\ m_input \in SeqsUpTo(IntervalDomain, MaxIntervals)
    /\ m_once = <<>>
    /\ m_twice = <<>>

\* merge_intervals applied to the input (line 84).
MergeOnce ==
    /\ m_pc = "start"
    /\ m_once' = merge_intervals(m_input)
    /\ m_pc' = "merged"
    /\ UNCHANGED <<m_input, m_twice, appVars, workVars, roomVars, availVars, createVars>>

\* merge_intervals applied to its own result.
MergeAgain ==
    /\ m_pc = "merged"
    /\ m_twice' = merge_intervals(m_once)
    /\ m_pc' = "done"
    /\ UNCHANGED <<m_input, m_once, appVars, workVars, roomVars, availVars, createVars>>

MergeInit == IdleApp /\ InitMerge /\ IdleWork /\ IdleRooms /\ IdleAvail /\ IdleCreate

NextMerge == MergeOnce \/ MergeAgain

SpecMerge == MergeInit /\ [][NextMerge]_vars

(***************************************************************************)
(* src/suggest_participant_availability.py: generate_work_blocks and       *)
(* split_working_hours.  Instants count minutes from 00:00 of a Monday.    *)
(***************************************************************************)

\* Bound of the model: the last day of the search ranges (day 0 is a Monday).
MaxDay == 7

\* datetime.time(9, 0) and datetime.time(18, 30) of generate_work_blocks;
\* datetime.time(9, 30), (12, 0), (14, 0), (18, 30) of split_working_hours.
DAY_WORK_START == 540
DAY_WORK_END == 1110
WORK_START == 570
LUNCH_START == 720
LUNCH_END == 840
WORK_END == 1110

MinutesPerDay == 24 * 60

\* datetime.date(), date.weekday() (Monday is 0) and datetime.combine.
date(t) == t \div MinutesPerDay
weekday(day) == day % 7
combine(day, time) == day * MinutesPerDay + time

\* Line 269: if current_day.weekday() < 5.
is_work_day(day) == weekday(day) < 5

\* Lines 267-280: the loop over the days current_day..end_day.
RECURSIVE work_blocks_from(_, _, _)
work_blocks_from(current_day, start, end) ==
    IF current_day > date(end) THEN <<>>
    ELSE LET block_start == Max2(start, combine(current_day, DAY_WORK_START))
             block_end   == Min2(end, combine(current_day, DAY_WORK_END))
             today == IF is_work_day(current_day) /\ block_start < block_end
                      THEN << <<block_start, block_end>> >>
                      ELSE <<>>
         IN  today \o work_blocks_from(current_day + 1, start, end)

\* Lines 254-282.
generate_work_blocks(start, end) == work_blocks_from(date(start), start, end)

\* Lines 303-319: the three periods of a day.
day_blocks(day) ==
    << <<combine(day, WORK_START), combine(day, LUNCH_START), FALSE>>,
       <<combine(day, LUNCH_START), combine(day, LUNCH_END), TRUE>>,
       <<combine(day, LUNCH_END), combine(day, WORK_END), FALSE>> >>

\* Lines 321-325: the periods of the day of `current`, clamped.
day_periods(current, end) ==
    LET clamped == [k \in 1..3 |->
                       <<Max2(current, day_blocks(date(current))[k][1]),
                         Min2(end, day_blocks(date(current))[k][2]),
                         day_blocks(date(current))[k][3]>>]
    IN  SelectSeq(clamped, LAMBDA p : p[1] < p[2])

\* A variant of the loop that moves to the next day with
\* current + timedelta(days=1), keeping the caller's time of day.
RECURSIVE split_from_same_time(_, _)
split_from_same_time(current, end) ==
    IF ~(current < end) THEN <<>>
    ELSE day_periods(current, end)
         \o split_from_same_time(current + MinutesPerDay, end)

\* Lines 298-329: the loop while current < end.
RECURSIVE split_from(_, _)
split_from(current, end) ==
    IF ~(current < end) THEN <<>>
    ELSE day_periods(current, end)
         \o split_from(combine(date(current) + 1, WORK_START), end)

\* A variant of the period split that takes the whole work block as one period.
split_whole_block(start, end) == << <<start, end, FALSE>> >>

\* Lines 285-331.
split_working_hours(start, end) == split_from(start, end)

\* Lines 221-242 of _run: every work block is split into its periods.
RECURSIVE periods_of_blocks(_)
periods_of_blocks(work_days) ==
    IF work_days = <<>> THEN <<>>
    ELSE split_working_hours(Head(work_days)[1], Head(work_days)[2])
         \o periods_of_blocks(Tail(work_days))

\* The times of day the search ranges start and end at.
TimesOfDay == {0, 540, 555, 570, 690, 720, 780, 840, 1110, 1200}

Instants == { combine(d, t) : d \in 0..MaxDay, t \in TimesOfDay }

InitWork ==
    /\ w_pc = "start"
    /\ w_range \in [start : Instants, end : Instants]
    /\ w_blocks = <<>>
    /\ w_periods = <<>>
    /\ w_composed = <<>>

\* generate_work_blocks(start, end) on the range.
GenerateWorkBlocks ==
    /\ w_pc = "start"
    /\ w_blocks' = generate_work_blocks(w_range.start, w_range.end)
    /\ w_pc' = "blocks"
    /\ UNCHANGED <<w_range, w_periods, w_composed, appVars, mergeVars, roomVars, availVars, createVars>>

\* split_working_hours(start, end) on the range itself.
SplitWorkingHours ==
    /\ w_pc = "blocks"
    /\ w_periods' = split_working_hours(w_range.start, w_range.end)
    /\ w_pc' = "split"
    /\ UNCHANGED <<w_range, w_blocks, w_composed, appVars, mergeVars, roomVars, availVars, createVars>>

\* SuggestParticipantAvailability._run, lines 221-230: the periods of every
\* work block.
SplitWorkBlocks ==
    /\ w_pc = "split"
    /\ w_composed' = periods_of_blocks(w_blocks)
    /\ w_pc' = "done"
    /\ UNCHANGED <<w_range, w_blocks, w_periods, appVars, mergeVars, roomVars, availVars, createVars>>

WorkInit == IdleApp /\ IdleMerge /\ InitWork /\ IdleRooms /\ IdleAvail /\ IdleCreate

NextWork == GenerateWorkBlocks \/ SplitWorkingHours \/ SplitWorkBlocks

SpecWork == WorkInit /\ [][NextWork]_vars

(***************************************************************************)
(* src/find_available_rooms.py: CheckRoomAvailability._run and             *)
(* get_available_rooms_in_window.  Room ids are numbers; id 0 is a room    *)
(* the directory does not know.  Instants count minutes of one day.        *)
(***************************************************************************)

\* Bounds of the model: the largest number of requested rooms, and how many
\* rooms have a calendar of their own choice (the others share a default).
MaxRooms == 51
MaxSpecial == 2

\* divide_into_chunk(relevant_rooms, split_at=50), line 188.
SPLIT_AT == 50

\* One calendar of a free/busy response: {"errors": [...], "busy": [...]}.
Calendar(errors, busy) == [errors |-> errors, busy |-> busy]

\* The window asked about in the model is 10:00-11:00.
CalFree     == Calendar(<<>>, <<>>)
CalBusy     == Calendar(<<>>, << Interval(630, 690) >>)
CalTouching == Calendar(<<>>, << Interval(540, 600), Interval(660, 720) >>)
CalErrored  == Calendar(<< "notFound" >>, <<>>)

\* The calendar the provider holds for a room.
calendar_of(provider, id) ==
    IF id \in DOMAIN provider.special THEN provider.special[id] ELSE provider.default

\* get_rooms(): the room directory, rooms 1..MaxRooms with their capacities.
seating_capacity(pattern, id) ==
    IF pattern = "same" THEN 6 ELSE 4 + 2 * (id % 3)

get_rooms(pattern) ==
    [d \in 1..MaxRooms |-> [id |-> d, seating_capacity |-> seating_capacity(pattern, d)]]

\* Lines 155-159: the directory entries of the requested ids, in request
\* order.  The directory lists every room once, so an id finds one entry or
\* none.
resolve_rooms(room_ids, all_rooms) ==
    LET found == SelectSeq(room_ids,
                           LAMBDA room_id : \E d \in DOMAIN all_rooms :
                                               all_rooms[d].id = room_id)
    IN  [j \in 1..Len(found) |->
            all_rooms[CHOOSE d \in DOMAIN all_rooms : all_rooms[d].id = found[j]]]

\* divide_into_chunk(items, split_at): consecutive slices of split_at items,
\* the last one holding the rest.
divide_into_chunk(items, split_at) ==
    [c \in 1..((Len(items) + split_at - 1) \div split_at) |->
        SubSeq(items, (c - 1) * split_at + 1, Min2(c * split_at, Len(items)))]

\* The keys of a JSON object: every id once, at its first position.
dedupe(ids) ==
    LET firsts == SelectSeq([j \in 1..Len(ids) |-> j],
                            LAMBDA j : \A k \in 1..(j - 1) : ids[k] # ids[j])
    IN  [j \in 1..Len(firsts) |-> ids[firsts[j]]]

reverse(seq) == [j \in 1..Len(seq) |-> seq[Len(seq) + 1 - j]]

\* service.freebusy().query(body).execute(): the "calendars" object of the
\* response, one <<id, calendar>> entry per requested id, in the order the
\* provider chooses to list them.
freebusy_calendars(provider, order, items) ==
    LET keys == IF order = "reversed" THEN reverse(dedupe(items)) ELSE dedupe(items)
    IN  [j \in 1..Len(keys) |-> <<keys[j], calendar_of(provider, keys[j])>>]

\* Line 248: not (end <= busy_start or start >= busy_end).
window_overlaps(start, end, busy) == ~(end <= busy.start \/ start >= busy.end)

\* Lines 232-253: one calendar is free in the window.
is_free_in_window(calendar_info, start, end) ==
    /\ calendar_info.errors = <<>>
    /\ \A j \in 1..Len(calendar_info.busy) :
          ~window_overlaps(start, end, calendar_info.busy[j])

\* Lines 227-255.
get_available_rooms_in_window(freebusy_data, start, end) ==
    LET free == SelectSeq(freebusy_data,
                          LAMBDA item : is_free_in_window(item[2], start, end))
    IN  [j \in 1..Len(free) |-> free[j][1]]

\* Lines 210-213: sorted(..., key=seating_capacity), a stable sort: the rooms
\* of the least capacity in the order they had, then the others likewise.
RECURSIVE sorted_by_capacity(_, _)
sorted_by_capacity(ids, pattern) ==
    IF ids = <<>> THEN <<>>
    ELSE LET key(r) == seating_capacity(pattern, r)
             least  == CHOOSE m \in {key(ids[j]) : j \in 1..Len(ids)} :
                          \A j \in 1..Len(ids) : m <= key(ids[j])
         IN  SelectSeq(ids, LAMBDA r : key(r) = least)
             \o sorted_by_capacity(SelectSeq(ids, LAMBDA r : key(r) # least), pattern)

\* Lines 215-217: all([x for x in resp if len(x["available_rooms"]) > 0]).
\* The list holds the window records themselves, and a record is true when
\* it has a key.
do_all_windows_have_available_rooms(resp) ==
    LET listed == SelectSeq(resp, LAMBDA x : Len(x.available_rooms) > 0)
    IN  \A j \in 1..Len(listed) : DOMAIN listed[j] # {}

\* --------------------------------------------------------------- inputs

ids_up_to(n) == [j \in 1..n |-> j]

RoomIdLists ==
    { ids_up_to(n) : n \in {0, 1, 3, SPLIT_AT, MaxRooms} }
    \cup { <<0>>, <<1, 0, 2>>, <<2, 1, 2>>, <<3, 2, 1>> }

SpecialIds == {1, 2, SPLIT_AT + 1}

SpecialCalendars == {CalFree, CalBusy, CalTouching, CalErrored}

SpecialMaps ==
    UNION { [chosen -> SpecialCalendars] :
              chosen \in {c \in SUBSET SpecialIds : Cardinality(c) <= MaxSpecial} }

Providers == [default : {CalBusy, CalFree}, special : SpecialMaps]

RoomInputs ==
    [room_ids : RoomIdLists, window : {Interval(600, 660)}, provider : Providers,
     order : {"request", "reversed"}, capacities : {"same", "mixed"},
     failing_query : {0, 1}]

InitRooms ==
    /\ r_pc = "start"
    /\ r_in \in RoomInputs
    /\ r_rooms = <<>>
    /\ r_chunks = <<>>
    /\ r_k = 0
    /\ r_queries = <<>>
    /\ r_answers = <<>>
    /\ r_resp = <<>>
    /\ r_out = None

\* --------------------------------------------------------------- actions

\* Lines 150-186: reject an empty list, look the rooms up, build the window
\* list and the empty result.
RoomsStart ==
    /\ r_pc = "start"
    /\ IF r_in.room_ids = <<>>
       THEN /\ r_out' = [kind |-> "error", error |-> "room_ids cannot be empty"]
            /\ r_pc' = "done"
            /\ UNCHANGED <<r_rooms, r_chunks, r_k, r_resp>>
       ELSE /\ r_rooms' = resolve_rooms(r_in.room_ids, get_rooms(r_in.capacities))
            /\ r_chunks' = divide_into_chunk(r_rooms', SPLIT_AT)
            /\ r_k' = 1
            /\ r_resp' = << [start |-> r_in.window.start, end |-> r_in.window.end,
                             available_rooms |-> <<>>] >>
            /\ r_pc' = "loop"
            /\ UNCHANGED r_out
    /\ UNCHANGED <<r_in, r_queries, r_answers, appVars, mergeVars, workVars, availVars, createVars>>

\* Lines 188-220: one iteration of the loop over the chunks.  A query that
\* raises ends the call in the except clause of line 223.
RoomsQueryChunk ==
    /\ r_pc = "loop" /\ r_k <= Len(r_chunks)
    /\ LET items     == [j \in 1..Len(r_chunks[r_k]) |-> r_chunks[r_k][j].id]
           calendars == freebusy_calendars(r_in.provider, r_in.order, items)
           updated   == [w \in 1..Len(r_resp) |->
                            [r_resp[w] EXCEPT !.available_rooms =
                                sorted_by_capacity(
                                    @ \o get_available_rooms_in_window(
                                             calendars, r_resp[w].start, r_resp[w].end),
                                    r_in.capacities)]]
       IN  /\ r_queries' = Append(r_queries, items)
           /\ IF r_in.failing_query = Len(r_queries) + 1
              THEN /\ r_out' = [kind |-> "traceback"]
                   /\ r_pc' = "done"
                   /\ UNCHANGED <<r_answers, r_resp, r_k>>
              ELSE /\ r_answers' = Append(r_answers,
                                          [j \in 1..Len(calendars) |-> calendars[j][1]])
                   /\ r_resp' = updated
                   /\ IF do_all_windows_have_available_rooms(updated)
                      THEN /\ r_out' = [kind |-> "ok", resp |-> updated]
                           /\ r_pc' = "done"
                           /\ UNCHANGED r_k
                      ELSE /\ r_k' = r_k + 1
                           /\ UNCHANGED <<r_pc, r_out>>
    /\ UNCHANGED <<r_in, r_rooms, r_chunks, appVars, mergeVars, workVars, availVars, createVars>>

\* Line 222: the loop ran out of chunks.
RoomsReturn ==
    /\ r_pc = "loop" /\ r_k > Len(r_chunks)
    /\ r_out' = [kind |-> "ok", resp |-> r_resp]
    /\ r_pc' = "done"
    /\ UNCHANGED <<r_in, r_rooms, r_chunks, r_k, r_queries, r_answers, r_resp,
                   appVars, mergeVars, workVars, availVars, createVars>>

RoomsInit == IdleApp /\ IdleMerge /\ IdleWork /\ InitRooms /\ IdleAvail /\ IdleCreate

NextRooms == RoomsStart \/ RoomsQueryChunk \/ RoomsReturn

SpecRooms == RoomsInit /\ [][NextRooms]_vars

(***************************************************************************)
(* src/suggest_participant_availability.py: SuggestParticipantAvailability *)
(* ._run and determine_for_one_period.  E-mails are numbers; 0 is an       *)
(* address that verify_emails_validity rejects.  Instants count minutes    *)
(* from a Monday 00:00, as in the work-hour part above.                    *)
(***************************************************************************)

\* Bounds of the model: the largest number of e-mails of a call, and how
\* many windows one period's slicing loop may append before the model stops
\* following it.
MaxEmails == 51
MaxWindows == 10

\* datetime.datetime.now() of line 168, and the hour of line 169.
NOW == 480
NOW_THRESHOLD == NOW - 60

\* calendar.get(key, None) used as a condition: the key is there and its
\* value is not empty.
truthy_get(calendar, key) == key \in DOMAIN calendar /\ calendar[key] # <<>>

\* The calendars of the provider.  E-mail 1 is readable with the credentials
\* the input says, e-mail 2 with the sea credential only, every other one
\* with the shopee credential only.  E-mail 3 is busy 11:30-11:40.
can_read(in, credential, email) ==
    CASE email = 1 -> in.access[credential]
      [] email = 2 -> credential = "sea"
      [] OTHER     -> credential = "shopee"

CalBusyOne   == Calendar(<<>>, << Interval(600, 630) >>)
CalBusyTwo   == Calendar(<<>>, << Interval(690, 750), Interval(585, 600) >>)
CalBusyOther == Calendar(<<>>, << Interval(620, 660) >>)
CalBusyThird == Calendar(<<>>, << Interval(690, 700) >>)

\* What the provider holds for an e-mail when a period is queried.
period_calendar(in, email) ==
    CASE email = 1 -> in.calendar1
      [] email = 2 -> in.calendar2
      [] email = 3 -> CalBusyThird
      [] OTHER     -> CalFree

\* The busy periods of a response are those that meet [timeMin, timeMax).
busy_within(busy, timeMin, timeMax) ==
    SelectSeq(busy, LAMBDA b : b.start < timeMax /\ b.end > timeMin)

\* The "calendars" object of the response to a validation query (lines 199
\* and 206): an unreadable calendar comes back with "errors".
validation_calendars(in, credential, items) ==
    LET keys == dedupe(items)
    IN  [j \in 1..Len(keys) |->
            << keys[j],
               IF can_read(in, credential, keys[j])
               THEN Calendar(<<>>, busy_within(period_calendar(in, keys[j]).busy,
                                               in.search_start, in.search_end))
               ELSE CalErrored >>]

\* The "calendars" object of the response to a period query (lines 53-54).
period_calendars(in, items, timeMin, timeMax) ==
    LET keys == dedupe(items)
    IN  [j \in 1..Len(keys) |->
            << keys[j],
               Calendar(period_calendar(in, keys[j]).errors,
                        busy_within(period_calendar(in, keys[j]).busy,
                                    timeMin, timeMax)) >>]

\* Lines 196-211: email_to_credential_map as the list of its items, in the
\* order of the dict: the calendars without "errors" of the shopee response
\* first, tagged again by the sea response when it has them too, then the
\* ones only the sea response has.
credential_map(shopee_calendars, sea_calendars) ==
    LET good(calendars) ==
            SelectSeq(calendars, LAMBDA item : ~truthy_get(item[2], "errors"))
        shopee == good(shopee_calendars)
        sea    == good(sea_calendars)
        in_sea(email)    == \E j \in 1..Len(sea) : sea[j][1] = email
        in_shopee(email) == \E j \in 1..Len(shopee) : shopee[j][1] = email
        late   == SelectSeq(sea, LAMBDA item : ~in_shopee(item[1]))
    IN  [j \in 1..Len(shopee) |->
            << shopee[j][1], IF in_sea(shopee[j][1]) THEN "sea" ELSE "shopee" >>]
        \o [j \in 1..Len(late) |-> << late[j][1], "sea" >>]

\* Lines 196-213: error_email_set - set(email_to_credential_map.keys()).
error_emails(shopee_calendars, sea_calendars) ==
    LET all   == shopee_calendars \o sea_calendars
        bad   == {all[j][1] : j \in {k \in 1..Len(all) : truthy_get(all[k][2], "errors")}}
        cmap  == credential_map(shopee_calendars, sea_calendars)
    IN  bad \ {cmap[j][1] : j \in 1..Len(cmap)}

\* Lines 39-51: the items of the query of one credential.
items_of(calendar_ids, credential) ==
    LET tagged == SelectSeq(calendar_ids, LAMBDA item : item[2] = credential)
    IN  [j \in 1..Len(tagged) |-> tagged[j][1]]

\* Lines 58-64: busy_slots, as the list of the calendars it keeps.
busy_slots(calendar_list) ==
    SelectSeq(calendar_list, LAMBDA item : ~truthy_get(item[2], "error"))

RECURSIVE concat_busy(_)
concat_busy(calendar_list) ==
    IF calendar_list = <<>> THEN <<>>
    ELSE Head(calendar_list)[2].busy \o concat_busy(Tail(calendar_list))

\* busy_slots[cal]: the calendar kept last for the e-mail.
busy_slot_of(slots, email) ==
    slots[CHOOSE k \in 1..Len(slots) :
             /\ slots[k][1] = email
             /\ \A later \in (k + 1)..Len(slots) : slots[later][1] # email][2]

\* Lines 66-69: busy_blocks, the busy lists of the calendar_ids one after the
\* other, in the order of calendar_ids.  The calendars with an empty list
\* add nothing.
busy_blocks(calendar_ids, slots) ==
    LET mine == SelectSeq(calendar_ids,
                    LAMBDA item : /\ \E k \in 1..Len(slots) : slots[k][1] = item[1]
                                  /\ busy_slot_of(slots, item[1]).busy # <<>>)
    IN  concat_busy([j \in 1..Len(mine) |->
                        << mine[j][1], busy_slot_of(slots, mine[j][1]) >>])

\* Lines 68-69: busy_slots[cal] raises KeyError for a calendar left out.
missing_busy_slots(calendar_ids, slots) ==
    \E j \in 1..Len(calendar_ids) :
        \A k \in 1..Len(slots) : slots[k][1] # calendar_ids[j][1]

\* A variant of the gap computation that never moves past a busy block.
RECURSIVE free_gaps_unmoved(_, _, _)
free_gaps_unmoved(current, blocks, end) ==
    IF blocks = <<>>
    THEN IF current < end THEN << Interval(current, end) >> ELSE <<>>
    ELSE (IF current < Head(blocks).start
          THEN << Interval(current, Head(blocks).start) >> ELSE <<>>)
         \o free_gaps_unmoved(current, Tail(blocks), end)

\* Lines 96-104: the free gaps between the merged busy blocks.
RECURSIVE free_gaps(_, _, _)
free_gaps(current, blocks, end) ==
    IF blocks = <<>>
    THEN IF current < end THEN << Interval(current, end) >> ELSE <<>>
    ELSE (IF current < Head(blocks).start
          THEN << Interval(current, Head(blocks).start) >> ELSE <<>>)
         \o free_gaps(Max2(current, Head(blocks).end), Tail(blocks), end)

\* Lines 34-104 of determine_for_one_period: the two queries, the busy
\* blocks and the free slots that the loop of line 108 then slices.
free_slots_of_period(in, calendar_ids, start, end) ==
    LET shopee_list == period_calendars(in, items_of(calendar_ids, "shopee"), start, end)
        sea_list    == period_calendars(in, items_of(calendar_ids, "sea"), start, end)
        slots       == busy_slots(shopee_list \o sea_list)
    IN  [raised |-> missing_busy_slots(calendar_ids, slots),
         slots  |-> free_gaps(start,
                              merge_intervals(busy_blocks(calendar_ids, slots)),
                              end)]

\* --------------------------------------------------------------- inputs

EmailLists == { <<1>>, <<1, 2>>, <<1, 3>>, <<0, 1>>, ids_up_to(MaxEmails) }

\* Monday morning, Monday around lunch, Monday to Tuesday evening, Friday
\* evening to the next Monday, a start more than an hour ago, an end before
\* the start.
SearchRanges ==
    { <<540, 720>>, <<660, 900>>, <<540, MinutesPerDay + 1110>>,
      <<4 * MinutesPerDay + 1020, 7 * MinutesPerDay + 630>>,
      <<400, 720>>, <<720, 540>> }

Durations == {-30, 0, 30, 45, 60}

AvailInputs ==
    { [emails |-> emails, search_start |-> range[1], search_end |-> range[2],
       duration |-> duration, access |-> access,
       calendar1 |-> calendar1, calendar2 |-> calendar2] :
         emails \in EmailLists, range \in SearchRanges, duration \in Durations,
         access \in [{"shopee", "sea"} -> BOOLEAN],
         calendar1 \in {CalFree, CalBusyOne, CalBusyTwo, CalErrored},
         calendar2 \in {CalFree, CalBusyOther} }

InitAvail ==
    /\ a_pc = "start"
    /\ a_in \in AvailInputs
    /\ a_map = <<>>
    /\ a_queries = <<>>
    /\ a_days = <<>>
    /\ a_d = 0
    /\ a_periods = <<>>
    /\ a_p = 0
    /\ a_free = <<>>
    /\ a_f = 0
    /\ a_ws = 0
    /\ a_windows = <<>>
    /\ a_results = <<>>
    /\ a_out = None

\* --------------------------------------------------------------- actions

Query(credential, items) == [credential |-> credential, items |-> items]

\* verify_emails_validity(smart_api, emails): the addresses it rejects.
verify_emails_validity(emails) ==
    {emails[j] : j \in {k \in 1..Len(emails) : emails[k] = 0}}

\* Lines 160-228: the checks of the call, the two validation queries, the
\* work days, and the periods of the first work day.
AvailValidate ==
    /\ a_pc = "start"
    /\ LET shopee_calendars == validation_calendars(a_in, "shopee", a_in.emails)
           sea_calendars    == validation_calendars(a_in, "sea", a_in.emails)
           bad              == error_emails(shopee_calendars, sea_calendars)
           work_days        == generate_work_blocks(a_in.search_start, a_in.search_end)
           stop(out, queries) ==
               /\ a_out' = out
               /\ a_queries' = queries
               /\ a_pc' = "done"
               /\ UNCHANGED <<a_map, a_days, a_d, a_periods, a_p>>
           both == << Query("shopee", a_in.emails), Query("sea", a_in.emails) >>
       IN  IF verify_emails_validity(a_in.emails) # {}
           THEN stop([kind |-> "error", error |-> "could not veify email addresses"], <<>>)
           ELSE IF a_in.search_start < NOW_THRESHOLD
           THEN stop([kind |-> "error", error |-> "start_time cannot be in the past"], <<>>)
           ELSE IF a_in.search_end < a_in.search_start
           THEN stop([kind |-> "error", error |-> "end_time cannot be before start_time"],
                     <<>>)
           ELSE IF bad # {}
           THEN stop([kind |-> "error",
                      error |-> "Could not access the calendar of the following emails",
                      emails |-> bad], both)
           ELSE IF work_days = <<>>
           THEN /\ a_out' = [kind |-> "ok", results |-> <<>>]
                /\ a_queries' = both
                /\ a_map' = credential_map(shopee_calendars, sea_calendars)
                /\ a_pc' = "done"
                /\ UNCHANGED <<a_days, a_d, a_periods, a_p>>
           ELSE /\ a_queries' = both
                /\ a_map' = credential_map(shopee_calendars, sea_calendars)
                /\ a_days' = work_days
                /\ a_d' = 1
                /\ a_periods' = split_working_hours(work_days[1][1], work_days[1][2])
                /\ a_p' = 1
                /\ a_pc' = "period"
                /\ UNCHANGED a_out
    /\ UNCHANGED <<a_in, a_free, a_f, a_ws, a_windows, a_results,
                   appVars, mergeVars, workVars, roomVars, createVars>>

\* Lines 229-237 with lines 34-107: determine_for_one_period is called for
\* the next period, sends its two queries and finds the free slots.
AvailQueryPeriod ==
    /\ a_pc = "period" /\ a_p <= Len(a_periods)
    /\ LET st    == a_periods[a_p][1]
           et    == a_periods[a_p][2]
           found == free_slots_of_period(a_in, a_map, st, et)
       IN  /\ a_queries' = a_queries \o << Query("shopee", items_of(a_map, "shopee")),
                                           Query("sea", items_of(a_map, "sea")) >>
           /\ IF found.raised
              THEN /\ a_out' = [kind |-> "traceback"]
                   /\ a_pc' = "done"
                   /\ UNCHANGED <<a_free, a_f, a_ws, a_windows>>
              ELSE /\ a_free' = found.slots
                   /\ a_f' = 1
                   /\ a_ws' = IF found.slots = <<>> THEN st ELSE found.slots[1].start
                   /\ a_windows' = <<>>
                   /\ a_pc' = "slice"
                   /\ UNCHANGED a_out
    /\ UNCHANGED <<a_in, a_map, a_days, a_d, a_periods, a_p, a_results,
                   appVars, mergeVars, workVars, roomVars, createVars>>

\* Lines 109-115: one turn of the while loop.  The model follows the loop
\* for MaxWindows windows of a period and no further.
AvailSlice ==
    /\ a_pc = "slice" /\ a_f <= Len(a_free)
    /\ a_ws + a_in.duration <= a_free[a_f].end
    /\ Len(a_windows) < MaxWindows
    /\ a_windows' = Append(a_windows, Interval(a_ws, a_ws + a_in.duration))
    /\ a_ws' = a_ws + a_in.duration
    /\ UNCHANGED <<a_pc, a_in, a_map, a_queries, a_days, a_d, a_periods, a_p,
                   a_free, a_f, a_results, a_out,
                   appVars, mergeVars, workVars, roomVars, createVars>>

\* Lines 107-109: the while loop of a free slot ends, the next slot begins.
AvailNextSlot ==
    /\ a_pc = "slice" /\ a_f <= Len(a_free)
    /\ ~(a_ws + a_in.duration <= a_free[a_f].end)
    /\ a_f' = a_f + 1
    /\ a_ws' = IF a_f + 1 <= Len(a_free) THEN a_free[a_f + 1].start ELSE a_ws
    /\ UNCHANGED <<a_pc, a_in, a_map, a_queries, a_days, a_d, a_periods, a_p,
                   a_free, a_windows, a_results, a_out,
                   appVars, mergeVars, workVars, roomVars, createVars>>

\* Lines 117 and 231-241: determine_for_one_period returns, the windows are
\* tagged and added to the results.
AvailPeriodDone ==
    /\ a_pc = "slice" /\ a_f > Len(a_free)
    /\ a_results' = a_results \o
           [j \in 1..Len(a_windows) |->
               [start |-> a_windows[j].start, end |-> a_windows[j].end,
                lunch_hours |-> a_periods[a_p][3]]]
    /\ a_p' = a_p + 1
    /\ a_pc' = "period"
    /\ UNCHANGED <<a_in, a_map, a_queries, a_days, a_d, a_periods,
                   a_free, a_f, a_ws, a_windows, a_out,
                   appVars, mergeVars, workVars, roomVars, createVars>>

\* Lines 243-249: the early return after a work day, the next work day, or
\* the return after the last one.
AvailDayEnd ==
    /\ a_pc = "period" /\ a_p > Len(a_periods)
    /\ IF Len(a_results) > 10
       THEN /\ a_results' = SubSeq(a_results, 1, 10)
            /\ a_out' = [kind |-> "ok", results |-> a_results']
            /\ a_pc' = "done"
            /\ UNCHANGED <<a_d, a_periods, a_p>>
       ELSE IF a_d + 1 > Len(a_days)
       THEN /\ a_out' = [kind |-> "ok", results |-> a_results]
            /\ a_pc' = "done"
            /\ UNCHANGED <<a_d, a_periods, a_p, a_results>>
       ELSE /\ a_d' = a_d + 1
            /\ a_periods' = split_working_hours(a_days[a_d + 1][1], a_days[a_d + 1][2])
            /\ a_p' = 1
            /\ UNCHANGED <<a_pc, a_out, a_results>>
    /\ UNCHANGED <<a_in, a_map, a_queries, a_days, a_free, a_f, a_ws, a_windows,
                   appVars, mergeVars, workVars, roomVars, createVars>>

AvailInit == IdleApp /\ IdleMerge /\ IdleWork /\ IdleRooms /\ InitAvail /\ IdleCreate

NextAvail ==
    \/ AvailValidate
    \/ AvailQueryPeriod
    \/ AvailSlice
    \/ AvailNextSlot
    \/ AvailPeriodDone
    \/ AvailDayEnd

SpecAvail == AvailInit /\ [][NextAvail]_vars

\* The calls followed for termination: one or two readable participants, a
\* morning and a two-day range, every duration.
FairInputs ==
    { in \in AvailInputs :
        /\ in.emails \in { <<1>>, <<1, 2>> }
        /\ <<in.search_start, in.search_end>>
              \in { <<540, 720>>, <<540, MinutesPerDay + 1110>> }
        /\ in.access["shopee"] /\ in.access["sea"]
        /\ in.calendar1 \in {CalFree, CalBusyOne}
        /\ in.calendar2 = CalFree }

AvailFairInit == AvailInit /\ a_in \in FairInputs

\* The call runs on its own thread of control: a step that can be taken is
\* taken.
SpecAvailFair == AvailFairInit /\ [][NextAvail]_vars /\ WF_vars(NextAvail)

(***************************************************************************)
(* src/create_event.py: CreateMeeting._run, called by two callers at once  *)
(* against one provider.  A call talks to the provider twice: the          *)
(* free/busy query of its rooms, and the insert of its event.              *)
(***************************************************************************)

Calls == {1, 2}

\* normalize_room_identifier_to_room(room_ids): the rooms of the directory
\* among the identifiers, and an error for every other identifier.
normalize_room_identifier_to_room(room_ids) ==
    LET known(id) == id \in 1..MaxRooms
        unknown   == SelectSeq(room_ids, LAMBDA id : ~known(id))
    IN  [resolved_rooms |-> SelectSeq(room_ids, known),
         errors |-> [j \in 1..Len(unknown) |->
                        [room_id |-> unknown[j], error |-> "room not found"]]]

\* The busy periods that the inserted events give a room.
event_busy(events, room) ==
    LET mine == SelectSeq(events,
                          LAMBDA ev : \E j \in 1..Len(ev.rooms) : ev.rooms[j] = room)
    IN  [j \in 1..Len(mine) |-> Interval(mine[j].start, mine[j].end)]

\* Lines 109-111: the calendar of one room in the response of the query.
room_calendar(calendars, events, room, timeMin, timeMax) ==
    Calendar(calendars[room].errors,
             busy_within(calendars[room].busy \o event_busy(events, room),
                         timeMin, timeMax))

\* A variant of the room check that looks at the first room only.
unavailable_first_room(room_ids, seen, start, end) ==
    SelectSeq(SubSeq(room_ids, 1, 1),
              LAMBDA room_id :
                  get_available_rooms_in_window(<< <<room_id, seen[room_id]>> >>,
                                                start, end) = <<>>)

\* Lines 113-133: the rooms that are not free in the window, each looked up
\* on its own in the response.
unavailable_rooms(room_ids, seen, start, end) ==
    SelectSeq(room_ids,
              LAMBDA room_id :
                  get_available_rooms_in_window(<< <<room_id, seen[room_id]>> >>,
                                                start, end) = <<>>)

\* --------------------------------------------------------------- inputs

Participants ==
    { [attendees |-> <<>>, optional_attendees |-> <<>>],
      [attendees |-> <<1>>, optional_attendees |-> <<>>],
      [attendees |-> <<>>, optional_attendees |-> <<2>>],
      [attendees |-> <<0>>, optional_attendees |-> <<>>] }

CreateCall(title, room_ids, without_room, people, window, insert_fails) ==
    [title |-> title, room_ids |-> room_ids,
     create_meeting_without_room |-> without_room,
     attendees |-> people.attendees,
     optional_attendees |-> people.optional_attendees,
     start_time |-> window.start, end_time |-> window.end,
     insert_fails |-> insert_fails]

CreateInputs ==
    { CreateCall(title, room_ids, without_room, people, window, insert_fails) :
        title \in {"", "sync"},
        room_ids \in { <<>>, <<1>>, <<1, 2>>, <<0, 1>> },
        without_room \in BOOLEAN,
        people \in Participants,
        window \in { Interval(600, 660), Interval(630, 690) },
        insert_fails \in BOOLEAN }

\* The other caller asks for room 1 in a window that overlaps, or follows,
\* the windows above.
RivalInputs ==
    { CreateCall("retro", <<1>>, FALSE, [attendees |-> <<2>>, optional_attendees |-> <<>>],
                 window, FALSE) :
        window \in { Interval(600, 660), Interval(645, 675), Interval(690, 720) } }

InitCreate ==
    /\ c_pc = [c \in Calls |-> "start"]
    /\ c_in \in { [c \in Calls |-> IF c = 1 THEN mine ELSE rival] :
                    mine \in CreateInputs, rival \in RivalInputs }
    /\ c_calendars \in { [room \in 1..2 |-> IF room = 1 THEN first ELSE second] :
                           first \in {CalFree, CalBusy, CalTouching, CalErrored},
                           second \in {CalFree, CalBusy} }
    /\ c_events = <<>>
    /\ c_seen = [c \in Calls |-> <<>>]
    /\ c_out = [c \in Calls |-> None]

\* --------------------------------------------------------------- actions

\* Lines 71-136: the checks of the arguments, then the free/busy query of
\* the rooms and the test that every room is free.
CreateCheck(c) ==
    /\ c_pc[c] = "start"
    /\ LET in         == c_in[c]
           people     == in.attendees \o in.optional_attendees
           normalized == normalize_room_identifier_to_room(in.room_ids)
           room_ids   == normalized.resolved_rooms
           seen       == [room \in {room_ids[j] : j \in 1..Len(room_ids)} |->
                             room_calendar(c_calendars, c_events, room,
                                           in.start_time, in.end_time)]
           errors     == unavailable_rooms(room_ids, seen, in.start_time, in.end_time)
           return(out) == /\ c_out' = [c_out EXCEPT ![c] = out]
                          /\ c_pc' = [c_pc EXCEPT ![c] = "done"]
       IN  IF in.title = ""
           THEN return([kind |-> "error", error |-> "title cannot be empty"])
                /\ UNCHANGED c_seen
           ELSE IF in.room_ids = <<>> /\ ~in.create_meeting_without_room
           THEN return([kind |-> "error",
                        error |-> "cannot schedule a meeting without a room"])
                /\ UNCHANGED c_seen
           ELSE IF people = <<>>
           THEN return([kind |-> "error",
                        error |-> "cannot create a meeting with no participants"])
                /\ UNCHANGED c_seen
           ELSE IF verify_emails_validity(people) # {}
           THEN return([kind |-> "error", error |-> "could not verify email addresses"])
                /\ UNCHANGED c_seen
           ELSE IF in.room_ids # <<>> /\ Len(room_ids) # Len(in.room_ids)
           THEN return([kind |-> "errors", errors |-> normalized.errors])
                /\ UNCHANGED c_seen
           ELSE IF in.room_ids # <<>> /\ errors # <<>>
           THEN return([kind |-> "errors",
                        errors |-> [j \in 1..Len(errors) |->
                                       [room_id |-> errors[j],
                                        error |-> "not available for booking"]]])
                /\ c_seen' = [c_seen EXCEPT ![c] = seen]
           ELSE /\ c_pc' = [c_pc EXCEPT ![c] = "insert"]
                /\ c_seen' = [c_seen EXCEPT ![c] = seen]
                /\ UNCHANGED c_out
    /\ UNCHANGED <<c_in, c_calendars, c_events,
                   appVars, mergeVars, workVars, roomVars, availVars>>

\* Lines 138-173: the event is built and inserted; an insert that raises
\* returns the traceback.
CreateInsert(c) ==
    /\ c_pc[c] = "insert"
    /\ LET in    == c_in[c]
           event == [by |-> c, summary |-> in.title,
                     rooms |-> normalize_room_identifier_to_room(in.room_ids).resolved_rooms,
                     start |-> in.start_time, end |-> in.end_time]
       IN  IF in.insert_fails
           THEN /\ c_out' = [c_out EXCEPT ![c] = [kind |-> "traceback"]]
                /\ UNCHANGED c_events
           ELSE /\ c_events' = Append(c_events, event)
                /\ c_out' = [c_out EXCEPT ![c] = [kind |-> "event", event |-> event]]
    /\ c_pc' = [c_pc EXCEPT ![c] = "done"]
    /\ UNCHANGED <<c_in, c_calendars, c_seen,
                   appVars, mergeVars, workVars, roomVars, availVars>>

CreateInit == IdleApp /\ IdleMerge /\ IdleWork /\ IdleRooms /\ IdleAvail /\ InitCreate

NextCreate == \E c \in Calls : CreateCheck(c) \/ CreateInsert(c)

SpecCreate == CreateInit /\ [][NextCreate]_vars

(***************************************************************************)
(* Properties of src/app.py, checked under Spec.                           *)
(***************************************************************************)

\* suggest_for_request has returned.
Returned == pc = "done" /\ outcome.kind # "Error"

\* Booking k of `existing` is in the requested room and shares an instant
\* with the end-exclusive interval [s, e).
BlocksAt(k, s, e) ==
    /\ existing[k].room.id = req.room.id
    /\ existing[k].start < e
    /\ s < existing[k].end

Blocked(s, e) == \E k \in 1..Len(existing) : BlocksAt(k, s, e)

\* Candidate n of the fallback scan is blocked.
CandidateBlocked(n) ==
    Blocked(req.start + 30 * n, req.start + 30 * n + (req.end - req.start))

\* The first booking, in list order, that blocks the requested interval has
\* at least as many attendees as the request.
FirstConflictNotNegotiable ==
    \E k \in 1..Len(existing) :
        /\ BlocksAt(k, req.start, req.end)
        /\ \A j \in 1..(k - 1) : ~BlocksAt(j, req.start, req.end)
        /\ existing[k].attendees >= req.attendees

\* C1: the outcome is Confirmed exactly when no booking of the requested room
\* overlaps [start, start+duration) end-exclusively; bookings of other rooms
\* and bookings that only touch an endpoint do not prevent confirmation.
C1_ConfirmedIffNoOverlap ==
    Returned => (outcome.kind = "Confirmed" <=> ~Blocked(req.start, req.end))

\* C1 witness: confirmed although one booking of the room ends at the
\* requested start and a booking of another room overlaps the request.
C1_Witness ==
    /\ Returned /\ outcome.kind = "Confirmed"
    /\ \E k \in 1..Len(existing) :
          existing[k].room.id = req.room.id /\ existing[k].end = req.start
    /\ \E k \in 1..Len(existing) :
          /\ existing[k].room.id # req.room.id
          /\ existing[k].start < req.end /\ req.start < existing[k].end

\* C2: negotiation is offered exactly when a conflicting booking exists and
\* the first one in list order has strictly fewer attendees than requested.
C2_NegotiationIffFirstConflictSmaller ==
    Returned =>
        (outcome.kind = "NegotiationOffered" <=>
            \E k \in 1..Len(existing) :
                /\ BlocksAt(k, req.start, req.end)
                /\ \A j \in 1..(k - 1) : ~BlocksAt(j, req.start, req.end)
                /\ existing[k].attendees < req.attendees)

\* C2 witness: no negotiation, the first conflict being as large as the
\* request, although a later overlapping booking has fewer attendees.
C2_Witness ==
    /\ Returned /\ outcome.kind \in {"FallbackOffered", "Exhausted"}
    /\ \E k \in 1..Len(existing) : \E j \in 1..(k - 1) :
          /\ BlocksAt(j, req.start, req.end)
          /\ existing[j].attendees = req.attendees
          /\ BlocksAt(k, req.start, req.end)
          /\ existing[k].attendees < req.attendees

\* C3: an offered fallback slot is the candidate start + 30*n for the
\* smallest n in 1..8 that no booking of the room blocks, and the scan never
\* tests more than 8 candidates.
C3_FallbackIsFirstFreeCandidate ==
    /\ probes <= 8
    /\ Returned /\ outcome.kind = "FallbackOffered" =>
          \E n \in 1..8 :
              /\ outcome.slot_start = req.start + 30 * n
              /\ outcome.slot_end = outcome.slot_start + (req.end - req.start)
              /\ ~CandidateBlocked(n)
              /\ \A j \in 1..(n - 1) : CandidateBlocked(j)
              /\ probes = n

\* C3 witness: a fallback offered at the third candidate or later.
C3_Witness ==
    /\ Returned /\ outcome.kind = "FallbackOffered"
    /\ outcome.slot_start >= req.start + 90
    /\ CandidateBlocked(1) /\ CandidateBlocked(2)

\* C4: the outcome is Exhausted exactly when the first conflict is not
\* negotiable and all 8 candidates are blocked; then exactly 8 candidates
\* were tested, and a scan that tests fewer stopped at a free candidate.
C4_ExhaustedIffAllEightBlocked ==
    Returned =>
        /\ outcome.kind = "Exhausted" <=>
              (FirstConflictNotNegotiable /\ \A n \in 1..8 : CandidateBlocked(n))
        /\ outcome.kind = "Exhausted" => probes = 8
        /\ (outcome.kind \in {"FallbackOffered", "Exhausted"} /\ probes < 8) =>
              (outcome.kind = "FallbackOffered" /\ ~CandidateBlocked(probes))

\* C4 witness: the apology after 8 tested candidates, the list holding more
\* than one booking of the room.
C4_Witness ==
    /\ Returned /\ outcome.kind = "Exhausted" /\ probes = 8
    /\ Len(existing) >= 2

\* Scenario 3: Room A booked 14:00-15:00 for 5, request for 5 at 14:00, 1 hour.
Scenario3 ==
    /\ Returned
    /\ existing = << Booking(RoomA, 840, 900, 5, "alice") >>
    /\ req.room.id = "Room A" /\ req.attendees = 5
    /\ req.start = 840 /\ req.end = 900

\* C5 as claimed: scenario 3 ends in a fallback offer starting at 14:30.
C5_Original_FallbackAt1430 ==
    Scenario3 => (outcome.kind = "FallbackOffered" /\ outcome.slot_start = 870)

\* C5 amended: scenario 3 ends in a fallback offer of 15:00-16:00, the second
\* candidate, the first one (14:30-15:30) overlapping the 14:00-15:00 booking.
C5_Scenario3FallbackAt1500 ==
    Scenario3 =>
        /\ outcome.kind = "FallbackOffered"
        /\ outcome.slot_start = 900 /\ outcome.slot_end = 960
        /\ outcome.from = [hour |-> 3, minute |-> 0]
        /\ probes = 2

\* C5 witness: scenario 3 has run to its end.
C5_Witness == Scenario3 /\ probes > 0

\* Scenario 4: Room A booked back to back 14:00-18:00 (or through 18:30 with
\* n = 9) by at least the requested number, request at 14:00 for 1 hour.
Scenario4(n) ==
    /\ Returned
    /\ existing = SolidBooked(n)
    /\ req.room.id = "Room A" /\ req.attendees <= 5
    /\ req.start = 840 /\ req.end = 900

\* C6 as claimed: scenario 4 makes 8 probes and ends Exhausted.
C6_Original_SolidUntil1800Exhausted ==
    Scenario4(8) => (outcome.kind = "Exhausted" /\ probes = 8)

\* C6 amended: with the room booked 14:00-18:00 the scan makes 8 probes and
\* offers the eighth, 18:00-19:00, which the booking ending at 18:00 only
\* touches; with the room booked through 18:30 it ends Exhausted after 8.
C6_Scenario4FallbackAt1800 ==
    /\ Scenario4(8) =>
          /\ outcome.kind = "FallbackOffered" /\ probes = 8
          /\ outcome.slot_start = 1080 /\ outcome.slot_end = 1140
    /\ Scenario4(9) => (outcome.kind = "Exhausted" /\ probes = 8)

\* C6 witness: scenario 4 has run to its end with the booked number of people.
C6_Witness == Scenario4(8) /\ req.attendees = 5 /\ probes = 8

\* The party size the caller gave.
PartySize == IF entry = "cli" THEN args.people ELSE args.num_people

\* C7 as claimed: a request with a party size of zero or less is rejected and
\* never ends Confirmed, NegotiationOffered, FallbackOffered or Exhausted,
\* and no availability check is made for it.
C7_NonPositivePartyRejected ==
    PartySize <= 0 =>
        /\ pc \notin {"negotiate", "probe"}
        /\ pc = "done" => outcome.kind = "Error"

(***************************************************************************)
(* Properties of merge_intervals, checked under SpecMerge.                 *)
(***************************************************************************)

\* The unit cell [t, t+1) lies in one of the intervals.
Covers(intervals, t) ==
    \E k \in 1..Len(intervals) : intervals[k].start <= t /\ t < intervals[k].end

\* Sorted by start with a strictly positive gap between neighbours.
SortedWithGaps(intervals) ==
    \A k \in 1..(Len(intervals) - 1) : intervals[k].end < intervals[k + 1].start

\* C8: the result of merge_intervals is sorted by start, neighbours are
\* separated by a strictly positive gap (touching intervals are merged), its
\* union is the union of the input, empty input gives empty output and a
\* single interval is returned unchanged.
C8_MergedSortedDisjointSameUnion ==
    m_pc # "start" =>
        /\ SortedWithGaps(m_once)
        /\ \A k \in 1..Len(m_once) : m_once[k].start < m_once[k].end
        /\ \A t \in 0..MaxTime : Covers(m_once, t) <=> Covers(m_input, t)
        /\ \A k \in 1..Len(m_once) :
              /\ \E j \in 1..Len(m_input) : m_input[j].start = m_once[k].start
              /\ \E j \in 1..Len(m_input) : m_input[j].end = m_once[k].end
        /\ m_input = <<>> => m_once = <<>>
        /\ Len(m_input) = 1 => m_once = m_input

\* C8 witness: an unsorted input with two touching intervals, merged into
\* one, and a separate interval kept.
C8_Witness ==
    /\ m_pc = "merged"
    /\ Len(m_input) = 3 /\ Len(m_once) = 2
    /\ m_input[1].start > m_input[2].start
    /\ \E j \in 1..3 : \E k \in 1..3 :
          /\ m_input[j].end = m_input[k].start
          /\ m_once[1] = Interval(m_input[j].start, m_input[k].end)

\* C9: merging a merged list returns it unchanged, and an input that is
\* already sorted with strictly positive gaps is returned unchanged.
C9_MergeIdempotent ==
    /\ m_pc = "done" => m_twice = m_once
    /\ (m_pc # "start" /\ SortedWithGaps(m_input)) => m_once = m_input

\* C9 witness: the second merge has run on a result of two intervals that
\* came out of a genuine merge of three.
C9_Witness ==
    /\ m_pc = "done"
    /\ Len(m_input) = 3 /\ Len(m_once) = 2 /\ m_twice = m_once
    /\ ~SortedWithGaps(m_input)

(***************************************************************************)
(* Properties of the work segmentation, checked under SpecWork.            *)
(***************************************************************************)

\* Every instant of [p[1], p[2]) lies on a day from Monday to Friday.
OnWeekdays(p) ==
    \A d \in date(p[1])..date(p[2] - 1) : d % 7 \notin {5, 6}

\* No block of generate_work_blocks lies on a Saturday or Sunday.
WorkBlocksOnWeekdays ==
    \A k \in 1..Len(w_blocks) : OnWeekdays(w_blocks[k])

\* No period of split_working_hours applied to the work blocks lies on a
\* Saturday or Sunday.
ComposedPeriodsOnWeekdays ==
    \A k \in 1..Len(w_composed) : OnWeekdays(w_composed[k])

\* C10 as claimed: no period of the work segmentation lies on a Saturday or
\* Sunday, for generate_work_blocks, for split_working_hours on an arbitrary
\* range, and for split_working_hours applied to the work blocks.
C10_NoPeriodOnWeekend ==
    /\ WorkBlocksOnWeekdays
    /\ \A k \in 1..Len(w_periods) : OnWeekdays(w_periods[k])
    /\ ComposedPeriodsOnWeekdays

\* The range of the search and what split_working_hours made of it.
SplitDone == w_pc \in {"split", "done"}

\* The canonical periods of a day: 09:30-12:00, 12:00-14:00 (lunch) and
\* 14:00-18:30, in minutes from the day's midnight.
Canonical == << <<570, 720, FALSE>>, <<720, 840, TRUE>>, <<840, 1110, FALSE>> >>

\* The part of canonical period k of day d that lies in [start, end).
Clamped(d, k) ==
    LET lo == d * 1440 + Canonical[k][1]
        hi == d * 1440 + Canonical[k][2]
    IN  << IF w_range.start > lo THEN w_range.start ELSE lo,
           IF w_range.end < hi THEN w_range.end ELSE hi,
           Canonical[k][3] >>

\* C11: split_working_hours returns, in chronological order, exactly the
\* non-empty intersections of [start, end) with the canonical periods of the
\* days it touches: positive durations, inside the range and inside one
\* canonical period, tagged lunch exactly for 12:00-14:00, and on every day
\* after the first the earliest period begins at that day's 09:30.
C11_SplitIsClampedCanonicalPeriods ==
    SplitDone =>
        /\ \A j \in 1..Len(w_periods) :
              /\ w_periods[j][1] < w_periods[j][2]
              /\ w_range.start <= w_periods[j][1] /\ w_periods[j][2] <= w_range.end
              /\ \E d \in 0..(MaxDay + 1) : \E k \in 1..3 :
                    /\ w_periods[j] = Clamped(d, k)
                    /\ d * 1440 + Canonical[k][1] <= w_periods[j][1]
                    /\ w_periods[j][2] <= d * 1440 + Canonical[k][2]
                    /\ w_periods[j][3] = (k = 2)
        /\ \A d \in 0..(MaxDay + 1) : \A k \in 1..3 :
              Clamped(d, k)[1] < Clamped(d, k)[2] =>
                  \E j \in 1..Len(w_periods) : w_periods[j] = Clamped(d, k)
        /\ \A j \in 1..(Len(w_periods) - 1) : w_periods[j][2] <= w_periods[j + 1][1]
        /\ \A j \in 1..Len(w_periods) :
              (/\ w_periods[j][1] \div 1440 > w_range.start \div 1440
               /\ (j = 1 \/ w_periods[j - 1][1] \div 1440 < w_periods[j][1] \div 1440))
              => w_periods[j][1] = (w_periods[j][1] \div 1440) * 1440 + 570

\* C11 witness: a range that starts after 09:30 on one day and ends inside a
\* period of a later day, so the first and the last day are clamped and the
\* later day starts at its own 09:30.
C11_Witness ==
    /\ SplitDone
    /\ Len(w_periods) >= 4
    /\ w_range.start % 1440 = 690 /\ w_periods[1][1] = w_range.start
    /\ w_periods[Len(w_periods)][2] = w_range.end
    /\ w_range.end % 1440 = 780
    /\ w_periods[Len(w_periods)][3] = TRUE

(***************************************************************************)
(* Properties of src/find_available_rooms.py, checked under SpecRooms.     *)
(***************************************************************************)

RoomsAnswered == r_pc = "done" /\ r_out # None /\ r_out.kind = "ok"

SomeWindowEmpty(resp) ==
    \E w \in 1..Len(resp) : resp[w].available_rooms = <<>>

ChunkLeftUnqueried == Len(r_queries) < Len(r_chunks)

QueriedIds == UNION { {r_queries[q][j] : j \in 1..Len(r_queries[q])} :
                        q \in 1..Len(r_queries) }

RequestedIds == {r_in.room_ids[j] : j \in 1..Len(r_in.room_ids)}

\* C15: the chunk loop leaves a chunk unqueried only when every window has a
\* free room; while some window's free list is empty the next chunk is
\* queried, so a free room of a later chunk is found.
C15_NextChunkQueriedWhileAWindowIsEmpty ==
    (RoomsAnswered /\ SomeWindowEmpty(r_out.resp)) => ~ChunkLeftUnqueried

\* C16: when no chunk is left unqueried, every requested identifier has been
\* queried, and the free list of a window holds no identifier twice.
C16_EveryRequestedIdQueried ==
    (RoomsAnswered /\ ~ChunkLeftUnqueried) =>
        /\ RequestedIds \subseteq QueriedIds
        /\ \A w \in 1..Len(r_out.resp) :
              \A a, b \in 1..Len(r_out.resp[w].available_rooms) :
                 a # b => r_out.resp[w].available_rooms[a]
                          # r_out.resp[w].available_rooms[b]

first_index(seq, x) ==
    CHOOSE j \in 1..Len(seq) : seq[j] = x /\ \A k \in 1..(j - 1) : seq[k] # x

\* C17: after every processed chunk each window's available_rooms is
\* ascending by seating capacity, and rooms of equal capacity stand in the
\* order in which their identifiers were requested.
C17_AscendingCapacityTiesInRequestOrder ==
    \A w \in 1..Len(r_resp) :
       LET rooms  == r_resp[w].available_rooms
           cap(r) == seating_capacity(r_in.capacities, r)
       IN  \A a, b \in 1..Len(rooms) :
              a < b =>
                 /\ cap(rooms[a]) <= cap(rooms[b])
                 /\ cap(rooms[a]) = cap(rooms[b]) =>
                       first_index(r_in.room_ids, rooms[a])
                       < first_index(r_in.room_ids, rooms[b])

\* C18: a free/busy query that fails for one chunk does not abort the room
\* check: a call with rooms to check still returns the window list.
C18_FailedChunkStillAnswers ==
    (r_pc = "done" /\ r_in.room_ids # <<>>) => r_out.kind = "ok"

(***************************************************************************)
(* Properties of src/suggest_participant_availability.py, checked under    *)
(* SpecAvail, and under SpecAvailFair for termination.                     *)
(***************************************************************************)

\* C12: every free/busy query carries at most 50 identifiers, however many
\* participants are requested.
C12_EveryQueryWithinCap ==
    \A q \in 1..Len(a_queries) : Len(a_queries[q].items) <= SPLIT_AT

\* C13: every free/busy query lists only identifiers of the domain whose
\* credential it is sent with.
C13_QueryItemsOfOneDomain ==
    \A q \in 1..Len(a_queries) :
       \A j \in 1..Len(a_queries[q].items) :
          can_read(a_in, a_queries[q].credential, a_queries[q].items[j])

\* C14: a window is offered only if every participant is free for it: the
\* provider reported no error for the participant and none of the
\* participant's busy periods overlaps the window, end-exclusive.
C14_OfferedOnlyIfEveryoneFree ==
    (a_pc = "slice" /\ a_in.duration > 0) =>
        \A j \in 1..Len(a_windows) :
           \A k \in 1..Len(a_map) :
              is_free_in_window(period_calendar(a_in, a_map[k][1]),
                                a_windows[j].start, a_windows[j].end)

\* C19: every resolution runs to completion, whatever the duration: every
\* turn of the slicing loop moves window_start forward, towards the end of
\* the free slot at which the loop stops.
C19_EverySliceTurnAdvances == [][AvailSlice => a_ws' > a_ws]_vars

\* The same as a property of whole runs: the call returns.  The model follows
\* the loop for MaxWindows turns, so a run that has not returned by then is
\* shown standing in the loop.
EveryResolutionReturns == <>(a_pc = "done")

\* The slicing loop is followed to its end for every positive duration.
SlicingFollowedToTheEnd ==
    (a_pc = "slice" /\ a_in.duration > 0) => Len(a_windows) < MaxWindows

\* C20: for a positive duration every window of a period has the length of
\* the duration, lies inside the period, overlaps no busy period of any
\* participant of calendar_ids, and the windows are in chronological order
\* and pairwise disjoint.
C20_WindowsFitPeriodAndAvoidBusy ==
    (a_pc = "slice" /\ a_in.duration > 0) =>
        /\ \A j \in 1..Len(a_windows) :
              /\ a_windows[j].end - a_windows[j].start = a_in.duration
              /\ a_periods[a_p][1] <= a_windows[j].start
              /\ a_windows[j].end <= a_periods[a_p][2]
              /\ \A k \in 1..Len(a_map) :
                    LET busy == period_calendar(a_in, a_map[k][1]).busy
                    IN  \A b \in 1..Len(busy) :
                           ~window_overlaps(a_windows[j].start, a_windows[j].end, busy[b])
        /\ \A j \in 1..(Len(a_windows) - 1) : a_windows[j].end <= a_windows[j + 1].start

\* C20 witness: two participants whose busy periods 10:00-10:30 and
\* 10:20-11:00 merge; the morning period 09:30-12:00 is sliced into the
\* half hour before them and the two half hours after them.
C20_Witness ==
    /\ a_pc = "slice" /\ a_in.duration = 30 /\ a_f > Len(a_free)
    /\ Len(a_map) = 2
    /\ a_in.calendar1 = CalBusyOne /\ a_in.calendar2 = CalBusyOther
    /\ a_periods[a_p] = <<570, 720, FALSE>>
    /\ a_windows = << Interval(570, 600), Interval(660, 690), Interval(690, 720) >>

AvailAnswered == a_pc = "done" /\ a_out.kind = "ok"

\* The slots of the whole search range: in every period of every work day,
\* the windows that fit one after the other into each free gap.
AllSlots ==
    LET periods == periods_of_blocks(generate_work_blocks(a_in.search_start,
                                                          a_in.search_end))
    IN  UNION { LET gaps == free_slots_of_period(a_in, a_map, periods[p][1],
                                                 periods[p][2]).slots
                IN  UNION { { [start |-> gaps[g].start + n * a_in.duration,
                               end |-> gaps[g].start + (n + 1) * a_in.duration,
                               lunch_hours |-> periods[p][3]] :
                                n \in 0..(((gaps[g].end - gaps[g].start)
                                             \div a_in.duration) - 1) } :
                            g \in 1..Len(gaps) } :
                p \in 1..Len(periods) }

\* C23: every returned slot lies on a weekday, inside the search range and
\* inside 09:30-18:30 of its day, so the 09:00-09:30 part of a work block is
\* never offered; at most 10 slots are returned, and they are the
\* chronologically earliest slots of the range.
C23_SlotsInWorkHoursAndEarliestTen ==
    (AvailAnswered /\ a_in.duration > 0) =>
        LET results == a_out.results
        IN  /\ Len(results) <= 10
            /\ \A j \in 1..Len(results) :
                  /\ is_work_day(date(results[j].start))
                  /\ date(results[j].end) = date(results[j].start)
                  /\ a_in.search_start <= results[j].start
                  /\ results[j].end <= a_in.search_end
                  /\ combine(date(results[j].start), WORK_START) <= results[j].start
                  /\ results[j].end <= combine(date(results[j].start), WORK_END)
                  /\ results[j] \in AllSlots
            /\ \A j \in 1..(Len(results) - 1) : results[j].end <= results[j + 1].start
            /\ \A slot \in AllSlots :
                  (\A j \in 1..Len(results) : results[j] # slot) =>
                      /\ Len(results) = 10
                      /\ results[10].end <= slot.start

\* C23 witness: a search from Monday 09:00 to Tuesday 18:30 with half-hour
\* meetings: Monday alone has more than 10 slots, the first at 09:30, and
\* the call returns 10 of them without looking at Tuesday.
C23_Witness ==
    /\ AvailAnswered /\ a_in.duration = 30
    /\ a_in.search_start = 540
    /\ Len(a_out.results) = 10
    /\ a_out.results[1].start = 570
    /\ a_d < Len(a_days)
    /\ Cardinality(AllSlots) > 10

(***************************************************************************)
(* Properties of src/create_event.py, checked under SpecCreate.            *)
(***************************************************************************)

Inserted(c) == \E j \in 1..Len(c_events) : c_events[j].by = c

\* Every validation of the call passes.
CallIsValid(c) ==
    LET in     == c_in[c]
        people == in.attendees \o in.optional_attendees
    IN  /\ in.title # ""
        /\ in.room_ids # <<>> \/ in.create_meeting_without_room
        /\ people # <<>>
        /\ \A j \in 1..Len(people) : people[j] # 0
        /\ \A j \in 1..Len(in.room_ids) : in.room_ids[j] \in 1..MaxRooms

\* Every requested room was free for [start_time, end_time) in the response
\* of the call's free/busy query.
EveryRoomSeenFree(c) ==
    \A j \in 1..Len(c_in[c].room_ids) :
       LET room == c_in[c].room_ids[j]
       IN  /\ room \in DOMAIN c_seen[c]
           /\ is_free_in_window(c_seen[c][room], c_in[c].start_time, c_in[c].end_time)

\* C21: a call inserts an event only if every validation passed and every
\* requested room was found free by the free/busy check; a call with an
\* empty title, no room without create_meeting_without_room, no participant,
\* an unverifiable address, an unresolvable room, or one room busy or
\* errored returns an error and inserts nothing.
C21_InsertOnlyIfValidAndEveryRoomFree ==
    \A c \in Calls :
       c_pc[c] = "done" =>
          /\ Inserted(c) => (CallIsValid(c) /\ EveryRoomSeenFree(c)
                             /\ c_out[c].kind = "event")
          /\ ~(CallIsValid(c) /\ EveryRoomSeenFree(c)) =>
                (~Inserted(c) /\ c_out[c].kind \in {"error", "errors"})
          /\ Cardinality({j \in 1..Len(c_events) : c_events[j].by = c}) <= 1

\* C21 witness: the first call books rooms 1 and 2, both free, and the other
\* call, which checks room 1 afterwards for an overlapping window, is
\* refused.
C21_Witness ==
    /\ c_pc = [c \in Calls |-> "done"]
    /\ c_in[1].room_ids = <<1, 2>>
    /\ c_out[1].kind = "event"
    /\ c_out[2].kind = "errors"
    /\ Len(c_events) = 1

SameRoomOverlapping(ev1, ev2) ==
    /\ \E j \in 1..Len(ev1.rooms) : \E k \in 1..Len(ev2.rooms) : ev1.rooms[j] = ev2.rooms[k]
    /\ window_overlaps(ev1.start, ev1.end, Interval(ev2.start, ev2.end))

\* C22: of two concurrent calls that request the same room for overlapping
\* windows at most one inserts its event.
C22_AtMostOneCallBooksTheRoom ==
    \A j, k \in 1..Len(c_events) :
       (j # k /\ c_events[j].by # c_events[k].by) =>
           ~SameRoomOverlapping(c_events[j], c_events[k])

\* The busy blocks of a period are listed in the order of calendar_ids: a
\* participant tagged sea who stands before a shopee participant comes first,
\* though the shopee response is read first.
BusyBlocksInOrderOfCalendarIds ==
    (a_pc = "slice" /\ Len(a_map) = 2 /\ a_map[1][2] = "sea" /\ a_map[2][2] = "shopee") =>
        LET st    == a_periods[a_p][1]
            et    == a_periods[a_p][2]
            slots == busy_slots(period_calendars(a_in, items_of(a_map, "shopee"), st, et)
                                \o period_calendars(a_in, items_of(a_map, "sea"), st, et))
        IN  busy_blocks(a_map, slots)
            = busy_within(period_calendar(a_in, a_map[1][1]).busy, st, et)
              \o busy_within(period_calendar(a_in, a_map[2][1]).busy, st, et)

====
